---- MODULE Spec2Model ----
(***************************************************************************)
(* The request path of the API gateway (api-gateway/src/index.js):         *)
(* the admission limiter (taskLimiter), the per-service circuit breaker    *)
(* (checkCircuitBreaker, recordFailure, recordSuccess, recordReroute) and  *)
(* the router (routeToService).                                            *)
(*                                                                         *)
(* JavaScript runs each handler to its next suspension without             *)
(* interleaving, so one action is one run-to-suspension segment of a       *)
(* handler or one event callback.  Time is Date.now() in model units:      *)
(* ERROR_TIMEOUT is 2 units and the 5000 ms reroute window is 1 unit (the  *)
(* order of the two durations is kept, not their ratio).                   *)
(*                                                                         *)
(* Three specifications share the actions:                                 *)
(*   Spec     the gateway under requests for one service type (either      *)
(*            one), with time passing;                                     *)
(*   SpecMix  the gateway under requests for both service types at one     *)
(*            instant (no Tick): the shared admission counter;             *)
(*   SpecAPI  Spec plus calls of recordReroute, which the gateway defines  *)
(*            but never calls.                                             *)
(*                                                                         *)
(* Further specifications, each moving only its own variables:             *)
(*   SpecRelay   the answer given for one settled forward;                 *)
(*   SpecSel     registration, health results and selectServiceInstance;   *)
(*   SpecReg     POST /sA/register with its answers;                       *)
(*   SpecHealth  the cycles of ServiceHealthMonitor;                       *)
(*   SpecPing    GET /ping and healthCheckCache, with time passing.        *)
(***************************************************************************)
EXTENDS Integers, Sequences, FiniteSets, TLC

\* ---------------------------------------------------------------- bounds
NumReq == 3          \* request slots that can be in progress at once
MaxTime == 4         \* the clock stops advancing here
MaxFailures == 4     \* cap on breaker.failures (unbounded in the code)
MaxReroutes == 1     \* cap on breaker.reroutes (unbounded in the code)
MaxList == 3         \* longest instance list in the registry
MaxLoad == 2         \* requestsPerSecond values are 1 .. MaxLoad
MaxCycles == 2       \* health-check cycles that can be in progress at once
NumPing == 1         \* GET /ping requests that can be in progress at once

\* ------------------------------------------------------ program constants
MAX_CONCURRENT_REQUESTS == 2
ERROR_THRESHOLD == 3
ERROR_TIMEOUT == 2
REROUTE_THRESHOLD == 2
REROUTE_WINDOW == 1
PING_WINDOW == 2

NULL == -1           \* JavaScript null in a field that otherwise holds a number
PENDING == -2        \* a load sample that has not settled yet

Req == 1..NumReq
Hosts == {"h1", "h2"}
ServiceTypes == {"A", "B"}
Services == {"serviceA", "serviceB"}

\* outcomes of the outbound axios call, by what axios reports
Outcomes == {"2xx", "3xx", "4xx", "5xx", "timeout", "neterr"}

VARIABLES
    clock,               \* Date.now()
    concurrentRequests,  \* the admission counter
    circuitBreakers,     \* service name -> breaker record
    gauge,               \* circuit_breaker_status{service}; NULL until first set
    redisConnected,      \* the registry connection flag
    registry,            \* service type -> list stored under service:<type>
    req,                 \* request slot -> position and bookkeeping of the request
    openedAt,            \* service name -> time the breaker last became OPEN (history)
    traffic,             \* the service types clients send requests for
    healthStatus,        \* healthMonitor.healthStatus: type -> instance -> flag
    serviceLoads,        \* serviceLoads: key -> Map of instance to load, in insertion order
    sel,                 \* the call of selectServiceInstance in progress
    relay,               \* one forward and the answer the gateway gives for it
    reg,                 \* the POST /sA/register request in progress
    cycles,              \* the health-check cycles in progress, oldest first
    lastProbe,           \* type -> instance -> result of the probe completed last (history)
    healthCheckCache,    \* healthCheckCache: timestamp and results of GET /ping
    ping                 \* ping slot -> position and bookkeeping of a GET /ping request

vars == <<clock, concurrentRequests, circuitBreakers, gauge, redisConnected,
          registry, req, openedAt, traffic, healthStatus, serviceLoads, sel, relay,
          reg, cycles, lastProbe, healthCheckCache, ping>>

\* the variables of registration, of the health monitor and of GET /ping
monVars == <<reg, cycles, lastProbe, healthCheckCache, ping>>

\* the variables the router's steps leave alone
sideVars == <<healthStatus, serviceLoads, sel, relay, monVars>>

\* the variables of the breaker, the limiter and the router
gatewayVars == <<clock, concurrentRequests, circuitBreakers, gauge, redisConnected,
                 req, openedAt>>

\* `${'service'}${serviceType}`
ServiceName(t) == IF t = "A" THEN "serviceA" ELSE "serviceB"

\* a number used in arithmetic: null coerces to 0
Num(x) == IF x = NULL THEN 0 ELSE x

\* a value used as a condition: null and 0 are falsy
Truthy(x) == x # NULL /\ x # 0

InitBreaker ==
    [failures |-> 0, lastFailure |-> NULL, state |-> "CLOSED",
     reroutes |-> 0, lastReroute |-> NULL, consecutiveReroutes |-> 0]

IdleReq ==
    [pc |-> "idle", type |-> "none", admitted |-> FALSE, probe |-> FALSE,
     forwarded |-> FALSE, resp |-> "none", calls |-> {},
     read |-> "none", outcome |-> "none"]

\* no call of selectServiceInstance in progress
IdleSel ==
    [pc |-> "idle", type |-> "none", list |-> << >>, healthy |-> << >>,
     samples |-> << >>, result |-> "none"]

\* no forward under observation
IdleRelay == [pc |-> "idle"]

\* ------------------------------------------------------- circuit breaker

checkCircuitBreaker_RejectsHalfOpen(b, now) ==
    IF b.state = "OPEN"
    THEN IF now - Num(b.lastFailure) > ERROR_TIMEOUT
         THEN [breaker |-> [b EXCEPT !.state = "HALF-OPEN", !.consecutiveReroutes = 0],
               ok |-> TRUE]
         ELSE [breaker |-> b, ok |-> FALSE]
    ELSE [breaker |-> b, ok |-> b.state # "HALF-OPEN"]

checkCircuitBreaker_NoTransition(b, now) ==
    IF b.state = "OPEN"
    THEN IF now - Num(b.lastFailure) > ERROR_TIMEOUT
         THEN [breaker |-> b, ok |-> TRUE]
         ELSE [breaker |-> b, ok |-> FALSE]
    ELSE [breaker |-> b, ok |-> TRUE]

\* checkCircuitBreaker(service): the breaker after the call and the returned flag
checkCircuitBreaker(b, now) ==
    IF b.state = "OPEN"
    THEN IF now - Num(b.lastFailure) > ERROR_TIMEOUT
         THEN [breaker |-> [b EXCEPT !.state = "HALF-OPEN", !.consecutiveReroutes = 0],
               ok |-> TRUE]
         ELSE [breaker |-> b, ok |-> FALSE]
    ELSE [breaker |-> b, ok |-> TRUE]

recordFailure_OnlyFromClosed(b, now) ==
    LET b1 == [b EXCEPT !.failures = @ + 1, !.lastFailure = now]
    IN  IF b1.failures >= ERROR_THRESHOLD /\ b.state = "CLOSED"
        THEN [breaker |-> [b1 EXCEPT !.state = "OPEN"], metrics |-> TRUE]
        ELSE [breaker |-> b1, metrics |-> FALSE]

recordFailure_IgnoredWhenOpen(b, now) ==
    LET b1 == [b EXCEPT !.failures = @ + 1, !.lastFailure = now]
    IN  IF b.state = "OPEN" THEN [breaker |-> b, metrics |-> FALSE]
        ELSE IF b1.failures >= ERROR_THRESHOLD
        THEN [breaker |-> [b1 EXCEPT !.state = "OPEN"], metrics |-> TRUE]
        ELSE [breaker |-> b1, metrics |-> FALSE]

recordFailure_AboveThreshold(b, now) ==
    LET b1 == [b EXCEPT !.failures = @ + 1, !.lastFailure = now]
    IN  IF b1.failures > ERROR_THRESHOLD
        THEN IF now - Num(b1.lastFailure) <= ERROR_TIMEOUT
             THEN [breaker |-> [b1 EXCEPT !.state = "OPEN"], metrics |-> TRUE]
             ELSE [breaker |-> [b1 EXCEPT !.failures = 1], metrics |-> FALSE]
        ELSE [breaker |-> b1, metrics |-> FALSE]

\* recordFailure(service), the later of the two definitions (a later function
\* declaration replaces the earlier one): the breaker after the call, and
\* whether updateCircuitBreakerMetrics was called.  lastFailure is assigned
\* before the window is tested against it.
recordFailure(b, now) ==
    LET b1 == [b EXCEPT !.failures = @ + 1, !.lastFailure = now]
    IN  IF b1.failures >= ERROR_THRESHOLD
        THEN IF now - Num(b1.lastFailure) <= ERROR_TIMEOUT
             THEN [breaker |-> [b1 EXCEPT !.state = "OPEN"], metrics |-> TRUE]
             ELSE [breaker |-> [b1 EXCEPT !.failures = 1], metrics |-> FALSE]
        ELSE [breaker |-> b1, metrics |-> FALSE]

recordSuccess_ResetsCount(b) ==
    IF b.state = "HALF-OPEN"
    THEN [b EXCEPT !.state = "CLOSED", !.failures = 0, !.lastFailure = NULL,
                   !.consecutiveReroutes = 0]
    ELSE [b EXCEPT !.failures = 0]

recordSuccess_ClearsInAnyState(b) ==
    IF b.state = "HALF-OPEN"
    THEN [b EXCEPT !.state = "CLOSED", !.failures = 0, !.lastFailure = NULL,
                   !.consecutiveReroutes = 0]
    ELSE [b EXCEPT !.failures = 0, !.lastFailure = NULL]

recordSuccess_KeepsFailures(b) ==
    IF b.state = "HALF-OPEN"
    THEN [b EXCEPT !.state = "CLOSED", !.lastFailure = NULL,
                   !.consecutiveReroutes = 0]
    ELSE b

\* recordSuccess(service)
recordSuccess(b) ==
    IF b.state = "HALF-OPEN"
    THEN [b EXCEPT !.state = "CLOSED", !.failures = 0, !.lastFailure = NULL,
                   !.consecutiveReroutes = 0]
    ELSE b

\* recordReroute(service)
recordReroute(b, now) ==
    LET c  == IF Truthy(b.lastReroute) /\ now - b.lastReroute <= REROUTE_WINDOW
              THEN b.consecutiveReroutes + 1 ELSE 1
        b1 == [b EXCEPT !.consecutiveReroutes = c, !.reroutes = @ + 1,
                        !.lastReroute = now]
    IN  IF c >= REROUTE_THRESHOLD
        THEN [b1 EXCEPT !.state = "OPEN", !.lastFailure = now]
        ELSE b1

\* updateCircuitBreakerMetrics(service): the value written to the gauge
StatusValue(b) == IF b.state = "CLOSED" THEN 0 ELSE IF b.state = "OPEN" THEN 1 ELSE 2

\* ------------------------------------------------------ admission limiter

LimiterAdmits_OffByOne(n) == ~(n > MAX_CONCURRENT_REQUESTS)

\* taskLimiter: the test that lets a request through
LimiterAdmits(n) == ~(n >= MAX_CONCURRENT_REQUESTS)

\* ----------------------------------------------------------------- router

\* safeRedisOperation: the test made before the registry is asked at all
RegistryAsked(connected) == connected

getServiceIPs_ListOnError(t, failed) == registry[t]

\* getServiceIPs once the lRange call has settled: its reply, or [] when it threw
getServiceIPs(t, failed) == IF failed THEN <<>> ELSE registry[t]

\* axios settles the forward: it resolves only for a 2xx status (its default
\* validateStatus); every other status, a timeout and a transport error reject
AxiosResolves(out) == out = "2xx"

RecordCalls_SkipsClientError(out) ==
    IF AxiosResolves(out) THEN {"recordSuccess"}
    ELSE IF out = "4xx" THEN {}
    ELSE {"recordFailure"}

\* routeToService after the forward: the record functions that run.  The rest
\* of the try block runs when axios resolved, the catch block when it rejected
\* (relaying the backend's body is taken not to throw).
RecordCalls(out) ==
    IF AxiosResolves(out) THEN {"recordSuccess"} ELSE {"recordFailure"}

ForwardResponse_TimeoutAs500(out) ==
    IF AxiosResolves(out) THEN "relay-2xx"
    ELSE IF out \in {"timeout", "neterr"} THEN "500"
    ELSE "status-" \o out

\* routeToService after the forward: the answer of the gateway
ForwardResponse(out) ==
    IF AxiosResolves(out) THEN "relay-2xx"
    ELSE IF out = "timeout" THEN "504"
    ELSE IF out = "neterr" THEN "500"
    ELSE "status-" \o out

\* history: the time a breaker became OPEN, kept while it stays OPEN
OpenedAtAfter(s, old, new) ==
    IF new.state = "OPEN"
    THEN IF old.state = "OPEN" THEN openedAt[s] ELSE clock
    ELSE NULL

\* the state after construction, before any client has sent a request
IdleReg == [pc |-> "idle", host |-> "none", serviceType |-> "none", status |-> 0]

IdlePing == [pc |-> "idle", now |-> NULL, cached |-> FALSE, read |-> FALSE,
             probed |-> FALSE, A |-> << >>, B |-> << >>, answer |-> NULL]

PingReq == 1..NumPing

\* no registration, health cycle or GET /ping has happened
MonStart ==
    /\ reg = IdleReg
    /\ cycles = << >>
    /\ lastProbe = [t \in ServiceTypes |-> [h \in Hosts |-> "none"]]
    /\ healthCheckCache = [timestamp |-> NULL, results |-> NULL]
    /\ ping = [p \in PingReq |-> IdlePing]

Start ==
    /\ MonStart
    /\ healthStatus = [t \in ServiceTypes |-> [h \in Hosts |-> "unset"]]
    /\ serviceLoads = [k \in Services |-> << >>]
    /\ sel = IdleSel
    /\ relay = IdleRelay
    /\ clock = 1
    /\ concurrentRequests = 0
    /\ circuitBreakers = [s \in Services |-> InitBreaker]
    /\ gauge = [s \in Services |-> NULL]
    /\ redisConnected = FALSE
    /\ registry = [t \in ServiceTypes |-> <<"h1">>]
    /\ req = [r \in Req |-> IdleReq]
    /\ openedAt = [s \in Services |-> NULL]

Init == Start /\ traffic \in {{t} : t \in ServiceTypes}

InitMix == Start /\ traffic = ServiceTypes

\* requests for one service type (the two are treated alike by every function)
InitAPI == Start /\ traffic = {"A"}

\* time passes
Tick ==
    /\ clock < MaxTime
    /\ clock' = clock + 1
    /\ UNCHANGED <<concurrentRequests, circuitBreakers, gauge, redisConnected,
                   registry, req, openedAt, traffic>>
    /\ UNCHANGED sideVars

\* redisClient.on('connect')
RedisConnect ==
    /\ ~redisConnected
    /\ redisConnected' = TRUE
    /\ UNCHANGED <<clock, concurrentRequests, circuitBreakers, gauge, registry,
                   req, openedAt, traffic>>
    /\ UNCHANGED sideVars

\* redisClient.on('error')
RedisError ==
    /\ redisConnected
    /\ redisConnected' = FALSE
    /\ UNCHANGED <<clock, concurrentRequests, circuitBreakers, gauge, registry,
                   req, openedAt, traffic>>
    /\ UNCHANGED sideVars

\* the slot a new request takes (slots are only names for requests in progress)
FreeSlot(r) == req[r].pc = "idle" /\ \A q \in Req : q < r => req[q].pc # "idle"

\* A request for service type t arrives on a service route: taskLimiter, then
\* routeToService up to its first suspension.  safeRedisOperation tests
\* redisConnected in that same segment; when it is false the empty list and the
\* 503 follow without any other handler running in between.
Arrive(r, t) ==
    LET s    == ServiceName(t)
        b    == circuitBreakers[s]
        gate == checkCircuitBreaker(b, clock)
        new  == [IdleReq EXCEPT !.type = t]
    IN
    /\ t \in traffic
    /\ FreeSlot(r)
    /\ IF ~LimiterAdmits(concurrentRequests)
       THEN /\ req' = [req EXCEPT ![r] = [new EXCEPT !.pc = "responded",
                                                    !.resp = "503-busy"]]
            /\ UNCHANGED <<concurrentRequests, circuitBreakers, openedAt>>
       ELSE /\ concurrentRequests' = concurrentRequests + 1
            /\ circuitBreakers' = [circuitBreakers EXCEPT ![s] = gate.breaker]
            /\ openedAt' = [openedAt EXCEPT ![s] = OpenedAtAfter(s, b, gate.breaker)]
            /\ req' = [req EXCEPT ![r] =
                  [new EXCEPT !.admitted = TRUE,
                              !.probe = (b.state = "OPEN" /\ gate.breaker.state = "HALF-OPEN"),
                              !.pc = IF gate.ok /\ RegistryAsked(redisConnected)
                                     THEN "awaitIPs" ELSE "responded",
                              !.read = IF gate.ok /\ ~RegistryAsked(redisConnected)
                                       THEN "disconnected" ELSE "none",
                              !.resp = IF ~gate.ok THEN "503-breaker"
                                       ELSE IF ~RegistryAsked(redisConnected)
                                            THEN "503-unavailable" ELSE "none"]]
    /\ UNCHANGED <<clock, gauge, redisConnected, registry, traffic>>
    /\ UNCHANGED sideVars

\* the lRange call settles.  An empty list answers 503; otherwise the router
\* runs selectServiceInstance, which returns an instance of the (non-empty)
\* list, and issues the forward.  Selection reads and writes none of the
\* variables of this module, so its suspensions are not separate steps here.
RegistryRead(r, failed) ==
    LET ips == getServiceIPs(req[r].type, failed) IN
    /\ req[r].pc = "awaitIPs"
    /\ req' = [req EXCEPT ![r].pc = IF Len(ips) = 0 THEN "responded" ELSE "forwarding",
                          ![r].forwarded = (Len(ips) # 0),
                          ![r].read = IF failed THEN "failed" ELSE "ok",
                          ![r].resp = IF Len(ips) = 0 THEN "503-unavailable" ELSE "none"]
    /\ UNCHANGED <<clock, concurrentRequests, circuitBreakers, gauge,
                   redisConnected, registry, openedAt, traffic>>
    /\ UNCHANGED sideVars

\* the forward settles with outcome out: the rest of the try block or the catch
ForwardDone(r, out) ==
    LET s     == ServiceName(req[r].type)
        b     == circuitBreakers[s]
        calls == RecordCalls(out)
        b1    == IF "recordSuccess" \in calls THEN recordSuccess(b) ELSE b
        rf    == IF "recordFailure" \in calls THEN recordFailure(b1, clock)
                 ELSE [breaker |-> b1, metrics |-> FALSE]
    IN
    /\ req[r].pc = "forwarding"
    /\ "recordFailure" \in calls => b.failures < MaxFailures
    /\ circuitBreakers' = [circuitBreakers EXCEPT ![s] = rf.breaker]
    /\ gauge' = IF rf.metrics THEN [gauge EXCEPT ![s] = StatusValue(rf.breaker)]
                ELSE gauge
    /\ openedAt' = [openedAt EXCEPT ![s] = OpenedAtAfter(s, b, rf.breaker)]
    /\ req' = [req EXCEPT ![r].pc = "responded",
                          ![r].calls = @ \cup calls,
                          ![r].outcome = out,
                          ![r].resp = ForwardResponse(out)]
    /\ UNCHANGED <<clock, concurrentRequests, redisConnected, registry, traffic>>
    /\ UNCHANGED sideVars

\* res 'finish': the response was handed to the socket; the limiter's listener
\* (registered only for admitted requests) runs
Finish(r) ==
    /\ req[r].pc = "responded"
    /\ concurrentRequests' = IF req[r].admitted THEN concurrentRequests - 1
                             ELSE concurrentRequests
    /\ req' = [req EXCEPT ![r] = IdleReq]
    /\ UNCHANGED <<clock, circuitBreakers, gauge, redisConnected, registry,
                   openedAt, traffic>>
    /\ UNCHANGED sideVars

\* the client connection ended before the response was finished: the response
\* emits 'close' and never 'finish', so no 'finish' listener runs
ClientGone(r) ==
    /\ req[r].pc = "responded"
    /\ req' = [req EXCEPT ![r] = IdleReq]
    /\ UNCHANGED <<clock, concurrentRequests, circuitBreakers, gauge,
                   redisConnected, registry, openedAt, traffic>>
    /\ UNCHANGED sideVars

\* a call of recordReroute(service); no code path of the gateway makes one
Reroute(s) ==
    LET b  == circuitBreakers[s]
        nb == recordReroute(b, clock)
    IN
    /\ \E t \in traffic : s = ServiceName(t)
    /\ b.reroutes < MaxReroutes
    /\ circuitBreakers' = [circuitBreakers EXCEPT ![s] = nb]
    /\ openedAt' = [openedAt EXCEPT ![s] = OpenedAtAfter(s, b, nb)]
    /\ UNCHANGED <<clock, concurrentRequests, gauge, redisConnected, registry,
                   req, traffic>>
    /\ UNCHANGED sideVars

NextMix ==
    \/ RedisConnect
    \/ RedisError
    \/ \E r \in Req, t \in ServiceTypes : Arrive(r, t)
    \/ \E r \in Req, failed \in BOOLEAN : RegistryRead(r, failed)
    \/ \E r \in Req, out \in Outcomes : ForwardDone(r, out)
    \/ \E r \in Req : Finish(r)
    \/ \E r \in Req : ClientGone(r)

Next ==
    \/ Tick
    \/ NextMix

NextAPI ==
    \/ Next
    \/ \E s \in Services : Reroute(s)

Spec == Init /\ [][Next]_vars

SpecMix == InitMix /\ [][NextMix]_vars

SpecAPI == InitAPI /\ [][NextAPI]_vars

\* --------------------------------------------------- instance selection

Loads == 1..MaxLoad

\* the elements of a list
Range(q) == {q[i] : i \in DOMAIN q}

isHealthy_UnknownIsHealthy(t, h) == healthStatus[t][h] # "false"

\* ServiceHealthMonitor.isHealthy: healthStatus.get(key) ?? false
isHealthy(t, h) == healthStatus[t][h] = "true"

HealthyInstances_FromHealthView(t, instances) ==
    SelectSeq(<<"h1", "h2">>, LAMBDA h : isHealthy(t, h))

\* selectServiceInstance: instances.filter(isHealthy)
HealthyInstances(t, instances) ==
    SelectSeq(instances, LAMBDA h : isHealthy(t, h))

\* serviceLoads[serviceType] is an object (the keys of serviceLoads are
\* serviceA and serviceB; the callers pass the service type, 'A' or 'B')
HasLoadMap(loads, t) == t \in DOMAIN loads

\* Map.prototype.set: a new key goes to the end, a present key keeps its place
MapSet(m, k, v) ==
    IF \E i \in DOMAIN m : m[i].instance = k
    THEN [i \in DOMAIN m |-> IF m[i].instance = k
                             THEN [instance |-> k, requestsPerSecond |-> v]
                             ELSE m[i]]
    ELSE Append(m, [instance |-> k, requestsPerSecond |-> v])

\* updateServiceLoad(serviceType, instance) once its GET /metrics has settled
\* with `sample` (NULL: the call threw): serviceLoads after it.  With no Map
\* under serviceType the .set call throws inside the try and nothing is stored.
updateServiceLoad(loads, t, h, sample) ==
    IF sample = NULL THEN loads
    ELSE IF ~HasLoadMap(loads, t) THEN loads
    ELSE [loads EXCEPT ![t] = MapSet(@, h, sample)]

\* selectServiceInstance after Promise.all: the entries of the Map for healthy
\* instances, the first of them in ascending requestsPerSecond (the sort is
\* stable, so entries with equal load keep their Map order)
FirstByLoad(m, healthy) ==
    LET e == SelectSeq(m, LAMBDA x : x.instance \in Range(healthy))
        best == CHOOSE i \in DOMAIN e :
                    \A j \in DOMAIN e :
                        \/ e[i].requestsPerSecond < e[j].requestsPerSecond
                        \/ e[i].requestsPerSecond = e[j].requestsPerSecond /\ i <= j
    IN  IF Len(e) = 0 THEN "none" ELSE e[best].instance

\* selectServiceInstance after Promise.all: the instance returned
SelectAfterSampling(loads, t, healthy) ==
    IF ~HasLoadMap(loads, t) THEN healthy[1]
    ELSE IF FirstByLoad(loads[t], healthy) # "none"
         THEN FirstByLoad(loads[t], healthy)
         ELSE healthy[1]

lPush_Appends(list, h) == Append(list, h)

\* redisClient.lPush(key, host)
lPush(list, h) == <<h>> \o list

\* the gateway with a connected, empty registry
InitSel ==
    /\ MonStart
    /\ healthStatus = [t \in ServiceTypes |-> [h \in Hosts |-> "unset"]]
    /\ serviceLoads = [k \in Services |-> << >>]
    /\ sel = IdleSel
    /\ relay = IdleRelay
    /\ clock = 1
    /\ concurrentRequests = 0
    /\ circuitBreakers = [s \in Services |-> InitBreaker]
    /\ gauge = [s \in Services |-> NULL]
    /\ redisConnected = TRUE
    /\ registry = [t \in ServiceTypes |-> << >>]
    /\ req = [r \in Req |-> IdleReq]
    /\ openedAt = [s \in Services |-> NULL]
    /\ traffic = {"A"}

\* POST /sA/register with host h and serviceType t; ok: the lPush call succeeded
Register(t, h, ok) ==
    /\ t \in traffic
    /\ Len(registry[t]) < MaxList
    /\ registry' = IF ok THEN [registry EXCEPT ![t] = lPush(@, h)] ELSE registry
    /\ UNCHANGED <<gatewayVars, traffic, healthStatus, serviceLoads, sel, relay,
                   monVars>>

\* another client of the shared registry removes entry i of a list
ExternalRemove(t, i) ==
    /\ t \in traffic
    /\ i \in DOMAIN registry[t]
    /\ registry' = [registry EXCEPT ![t] =
                      SubSeq(@, 1, i - 1) \o SubSeq(@, i + 1, Len(@))]
    /\ UNCHANGED <<gatewayVars, traffic, healthStatus, serviceLoads, sel, relay,
                   monVars>>

\* updateServiceHealth(t, h) of a health cycle completes for a listed instance
HealthProbe(t, h, ok) ==
    /\ t \in traffic
    /\ h \in Range(registry[t])
    /\ healthStatus' = [healthStatus EXCEPT ![t][h] = IF ok THEN "true" ELSE "false"]
    /\ UNCHANGED <<gatewayVars, traffic, registry, serviceLoads, sel, relay,
                   monVars>>

\* a routing decision for type t: the list is read (failed: the lRange call
\* threw) and selectServiceInstance runs up to its Promise.all.  (The router
\* answers 503 itself on an empty list; the function returns null for it.)
SelectStart(t, failed) ==
    LET list    == IF RegistryAsked(redisConnected) THEN getServiceIPs(t, failed)
                   ELSE << >>
        healthy == HealthyInstances(t, list)
        new     == [IdleSel EXCEPT !.type = t, !.list = list, !.healthy = healthy]
    IN
    /\ t \in traffic
    /\ sel.pc = "idle"
    /\ sel' = IF Len(list) = 0
              THEN [new EXCEPT !.pc = "done", !.result = "null"]
              ELSE IF Len(healthy) = 0
              THEN [new EXCEPT !.pc = "done", !.result = list[1]]
              ELSE [new EXCEPT !.pc = "sampling",
                               !.samples = [i \in DOMAIN healthy |-> PENDING]]
    /\ UNCHANGED <<gatewayVars, traffic, registry, healthStatus, serviceLoads, relay,
                   monVars>>

\* the load sample of healthy instance number i settles (sample = NULL: it
\* failed); after the last one Promise.all resolves and the function returns
SampleDone(i, sample) ==
    LET t       == sel.type
        loads   == updateServiceLoad(serviceLoads, t, sel.healthy[i], sample)
        samples == [sel.samples EXCEPT ![i] = sample]
        last    == \A j \in DOMAIN samples : samples[j] # PENDING
    IN
    /\ sel.pc = "sampling"
    /\ i \in DOMAIN sel.samples
    /\ sel.samples[i] = PENDING
    /\ serviceLoads' = loads
    /\ sel' = IF last
              THEN [sel EXCEPT !.samples = samples, !.pc = "done",
                               !.result = SelectAfterSampling(loads, t, sel.healthy)]
              ELSE [sel EXCEPT !.samples = samples]
    /\ UNCHANGED <<gatewayVars, traffic, registry, healthStatus, relay,
                   monVars>>

\* the caller has taken the result
SelectReturn ==
    /\ sel.pc = "done"
    /\ sel' = IdleSel
    /\ UNCHANGED <<gatewayVars, traffic, registry, healthStatus, serviceLoads, relay,
                   monVars>>

NextSel ==
    \/ \E t \in ServiceTypes, h \in Hosts, ok \in BOOLEAN : Register(t, h, ok)
    \/ \E t \in ServiceTypes, i \in 1..MaxList : ExternalRemove(t, i)
    \/ \E t \in ServiceTypes, h \in Hosts, ok \in BOOLEAN : HealthProbe(t, h, ok)
    \/ \E t \in ServiceTypes, failed \in BOOLEAN : SelectStart(t, failed)
    \/ \E i \in 1..MaxList, sample \in Loads \cup {NULL} : SampleDone(i, sample)
    \/ SelectReturn

SpecSel == InitSel /\ [][NextSel]_vars

\* ----------------------------------------------------------- registration

\* values a field of the JSON body of a registration can have: absent
\* ("undefined"), the empty string, or a name
HostValues == Hosts \cup {"undefined", ""}
TypeValues == ServiceTypes \cup {"undefined", ""}

\* !x for those values
Falsy(x) == x \in {"undefined", ""}

MissingField_HostOnly(host, serviceType) == Falsy(host)

\* POST /sA/register: !host || !serviceType
MissingField(host, serviceType) == Falsy(host) \/ Falsy(serviceType)

\* the gateway with one instance of each type registered (registration calls
\* lPush on the client directly, whatever redisConnected says)
InitReg ==
    /\ Start
    /\ traffic = ServiceTypes

\* POST /sA/register arrives with a JSON body: up to the 400 answer or to the
\* await of the lPush call
RegArrive(host, serviceType) ==
    /\ reg.pc = "idle"
    /\ reg' = IF MissingField(host, serviceType)
              THEN [pc |-> "answered", host |-> host, serviceType |-> serviceType,
                    status |-> 400]
              ELSE [pc |-> "writing", host |-> host, serviceType |-> serviceType,
                    status |-> 0]
    /\ UNCHANGED <<gatewayVars, traffic, registry, healthStatus, serviceLoads, sel,
                   relay, cycles, lastProbe, healthCheckCache, ping>>

\* the lPush call settles (ok: it succeeded); a list under a key that is not
\* one of the two service types is not part of registry
RegWrite(ok) ==
    /\ reg.pc = "writing"
    /\ reg.serviceType \in ServiceTypes => Len(registry[reg.serviceType]) < MaxList
    /\ registry' = IF ok /\ reg.serviceType \in ServiceTypes
                   THEN [registry EXCEPT ![reg.serviceType] = lPush(@, reg.host)]
                   ELSE registry
    /\ reg' = [reg EXCEPT !.pc = "answered", !.status = IF ok THEN 200 ELSE 500]
    /\ UNCHANGED <<gatewayVars, traffic, healthStatus, serviceLoads, sel,
                   relay, cycles, lastProbe, healthCheckCache, ping>>

\* the answer has been sent
RegReturn ==
    /\ reg.pc = "answered"
    /\ reg' = IdleReg
    /\ UNCHANGED <<gatewayVars, traffic, registry, healthStatus, serviceLoads, sel,
                   relay, cycles, lastProbe, healthCheckCache, ping>>

NextReg ==
    \/ \E host \in HostValues, serviceType \in TypeValues : RegArrive(host, serviceType)
    \/ \E ok \in BOOLEAN : RegWrite(ok)
    \/ RegReturn
    \/ \E t \in ServiceTypes, i \in 1..MaxList : ExternalRemove(t, i)

SpecReg == InitReg /\ [][NextReg]_vars

\* ---------------------------------------------------------- health monitor

updateServiceHealth_KeepsTrue(hs, t, h, ok) ==
    [hs EXCEPT ![t][h] = IF ok \/ @ = "true" THEN "true" ELSE "false"]

\* updateServiceHealth: healthStatus.set(`${serviceType}-${instance}`, isHealthy)
updateServiceHealth(hs, t, h, ok) ==
    [hs EXCEPT ![t][h] = IF ok THEN "true" ELSE "false"]

\* a cycle that has read both lists: its position at the first instance to
\* probe (type A first, as Object.entries gives them), or "done" with none
FirstProbe(c) ==
    IF Len(c.A) > 0 THEN [c EXCEPT !.pc = "probing", !.t = "A", !.i = 1]
    ELSE IF Len(c.B) > 0 THEN [c EXCEPT !.pc = "probing", !.t = "B", !.i = 1]
    ELSE [c EXCEPT !.pc = "done"]

\* the position after the probe at (c.t, c.i)
NextProbe(c) ==
    IF c.i < Len(c[c.t]) THEN [c EXCEPT !.i = @ + 1]
    ELSE IF c.t = "A" /\ Len(c.B) > 0 THEN [c EXCEPT !.t = "B", !.i = 1]
    ELSE [c EXCEPT !.pc = "done"]

\* cycles with cycle number n replaced by c, or dropped when c has finished
PutCycle(n, c) ==
    IF c.pc = "done"
    THEN SubSeq(cycles, 1, n - 1) \o SubSeq(cycles, n + 1, Len(cycles))
    ELSE [cycles EXCEPT ![n] = c]

NewCycle == [pc |-> "listA", A |-> << >>, B |-> << >>, t |-> "A", i |-> 0]

\* the gateway with two instances of A and one of B registered
InitHealth ==
    /\ MonStart
    /\ healthStatus = [t \in ServiceTypes |-> [h \in Hosts |-> "unset"]]
    /\ serviceLoads = [k \in Services |-> << >>]
    /\ sel = IdleSel
    /\ relay = IdleRelay
    /\ clock = 1
    /\ concurrentRequests = 0
    /\ circuitBreakers = [s \in Services |-> InitBreaker]
    /\ gauge = [s \in Services |-> NULL]
    /\ redisConnected = FALSE
    /\ registry = [t \in ServiceTypes |-> IF t = "A" THEN <<"h1", "h2">> ELSE <<"h2">>]
    /\ req = [r \in Req |-> IdleReq]
    /\ openedAt = [s \in Services |-> NULL]
    /\ traffic = ServiceTypes

\* the setInterval timer of startHealthChecks fires: the callback runs up to
\* its first suspension on the registry.  The timer fires every 30 s whether
\* or not an earlier callback has returned, and neither the lRange calls nor
\* the number of probes of a cycle is bounded in time, so the step is enabled
\* whenever fewer than MaxCycles cycles are in progress.  With the registry
\* disconnected both lists are [] with no suspension and the cycle is over.
TimerFire ==
    /\ Len(cycles) < MaxCycles
    /\ cycles' = IF RegistryAsked(redisConnected) THEN Append(cycles, NewCycle)
                 ELSE cycles
    /\ UNCHANGED <<gatewayVars, traffic, registry, healthStatus, serviceLoads, sel,
                   relay, reg, lastProbe, healthCheckCache, ping>>

\* getAllServices of cycle n: the lRange call for type A settles, and the
\* one for type B is issued (or skipped with [] when disconnected by now)
CycleListA(n, failed) ==
    /\ n \in DOMAIN cycles
    /\ cycles[n].pc = "listA"
    /\ LET c == [cycles[n] EXCEPT !.A = getServiceIPs("A", failed)] IN
       cycles' = PutCycle(n, IF RegistryAsked(redisConnected)
                             THEN [c EXCEPT !.pc = "listB"]
                             ELSE FirstProbe(c))
    /\ UNCHANGED <<gatewayVars, traffic, registry, healthStatus, serviceLoads, sel,
                   relay, reg, lastProbe, healthCheckCache, ping>>

\* the lRange call for type B settles; the first probe of the cycle is issued
CycleListB(n, failed) ==
    /\ n \in DOMAIN cycles
    /\ cycles[n].pc = "listB"
    /\ cycles' = PutCycle(n, FirstProbe([cycles[n] EXCEPT
                                            !.B = getServiceIPs("B", failed)]))
    /\ UNCHANGED <<gatewayVars, traffic, registry, healthStatus, serviceLoads, sel,
                   relay, reg, lastProbe, healthCheckCache, ping>>

\* the probe in flight of cycle n completes (ok: it answered 200):
\* updateServiceHealth records it and the next probe of the cycle is issued
CycleProbe(n, ok) ==
    /\ n \in DOMAIN cycles
    /\ cycles[n].pc = "probing"
    /\ LET c == cycles[n]
           h == c[c.t][c.i]
       IN  /\ healthStatus' = updateServiceHealth(healthStatus, c.t, h, ok)
           /\ lastProbe' = [lastProbe EXCEPT ![c.t][h] = IF ok THEN "true" ELSE "false"]
           /\ cycles' = PutCycle(n, NextProbe(c))
    /\ UNCHANGED <<gatewayVars, traffic, registry, serviceLoads, sel,
                   relay, reg, healthCheckCache, ping>>

NextHealth ==
    \/ RedisConnect
    \/ RedisError
    \/ TimerFire
    \/ \E n \in 1..MaxCycles, failed \in BOOLEAN : CycleListA(n, failed)
    \/ \E n \in 1..MaxCycles, failed \in BOOLEAN : CycleListB(n, failed)
    \/ \E n \in 1..MaxCycles, ok \in BOOLEAN : CycleProbe(n, ok)

SpecHealth == InitHealth /\ [][NextHealth]_vars

\* ----------------------------------------------------------------- GET /ping

CacheFresh_Inclusive(cache, now) ==
    Truthy(cache.timestamp) /\ now - cache.timestamp <= PING_WINDOW

\* GET /ping: healthCheckCache.timestamp && now - healthCheckCache.timestamp < 10000
CacheFresh(cache, now) ==
    Truthy(cache.timestamp) /\ now - cache.timestamp < PING_WINDOW

\* the healthStatus object of GET /ping, as far as the cache is concerned: the
\* time the request arrived and the number of instances of each type (the
\* per-instance probe results and the gateway fields are left out)
PingStatus(now, A, B) ==
    [timestamp |-> now, instancesA |-> Len(A), instancesB |-> Len(B)]

\* lines 587-590 for request p with status st: the cache is replaced and the
\* status is the answer
PingStore(p, q, st) ==
    /\ healthCheckCache' = [timestamp |-> q.now, results |-> st]
    /\ ping' = [ping EXCEPT ![p] = [q EXCEPT !.pc = "answered", !.answer = st]]

\* the gateway with two instances of A and one of B registered, connected
InitPing ==
    /\ MonStart
    /\ healthStatus = [t \in ServiceTypes |-> [h \in Hosts |-> "unset"]]
    /\ serviceLoads = [k \in Services |-> << >>]
    /\ sel = IdleSel
    /\ relay = IdleRelay
    /\ clock = 1
    /\ concurrentRequests = 0
    /\ circuitBreakers = [s \in Services |-> InitBreaker]
    /\ gauge = [s \in Services |-> NULL]
    /\ redisConnected = TRUE
    /\ registry = [t \in ServiceTypes |-> IF t = "A" THEN <<"h1", "h2">> ELSE <<"h2">>]
    /\ req = [r \in Req |-> IdleReq]
    /\ openedAt = [s \in Services |-> NULL]
    /\ traffic = ServiceTypes

\* the slot a new GET /ping takes
FreePing(p) == ping[p].pc = "idle" /\ \A q \in PingReq : q < p => ping[q].pc # "idle"

\* GET /ping arrives: the stored status is answered while it is fresh;
\* otherwise both lists are asked for.  With the registry disconnected both
\* are [] with no suspension, no probe is made and the status is stored and
\* answered in the same step.
PingArrive(p) ==
    LET q == [IdlePing EXCEPT !.now = clock] IN
    /\ FreePing(p)
    /\ IF CacheFresh(healthCheckCache, clock)
       THEN /\ ping' = [ping EXCEPT ![p] = [q EXCEPT !.pc = "answered", !.cached = TRUE,
                                               !.answer = healthCheckCache.results]]
            /\ UNCHANGED healthCheckCache
       ELSE IF RegistryAsked(redisConnected)
       THEN /\ ping' = [ping EXCEPT ![p] = [q EXCEPT !.pc = "lists", !.read = TRUE]]
            /\ UNCHANGED healthCheckCache
       ELSE PingStore(p, q, PingStatus(clock, << >>, << >>))
    /\ UNCHANGED <<gatewayVars, traffic, registry, healthStatus, serviceLoads, sel,
                   relay, reg, cycles, lastProbe>>

\* the two lRange calls of request p have settled: the probes of the A
\* instances are issued, or with no A instance those of the B instances, or
\* with no instance at all the status is stored and answered
PingLists(p, failedA, failedB) ==
    LET A == getServiceIPs("A", failedA)
        B == getServiceIPs("B", failedB)
        q == [ping[p] EXCEPT !.A = A, !.B = B]
    IN
    /\ ping[p].pc = "lists"
    /\ IF Len(A) > 0
       THEN /\ ping' = [ping EXCEPT ![p] = [q EXCEPT !.pc = "probesA", !.probed = TRUE]]
            /\ UNCHANGED healthCheckCache
       ELSE IF Len(B) > 0
       THEN /\ ping' = [ping EXCEPT ![p] = [q EXCEPT !.pc = "probesB", !.probed = TRUE]]
            /\ UNCHANGED healthCheckCache
       ELSE PingStore(p, q, PingStatus(q.now, A, B))
    /\ UNCHANGED <<gatewayVars, traffic, registry, healthStatus, serviceLoads, sel,
                   relay, reg, cycles, lastProbe>>

\* the probes of the A instances of request p have all settled
PingProbesA(p) ==
    LET q == ping[p] IN
    /\ ping[p].pc = "probesA"
    /\ IF Len(q.B) > 0
       THEN /\ ping' = [ping EXCEPT ![p] = [q EXCEPT !.pc = "probesB"]]
            /\ UNCHANGED healthCheckCache
       ELSE PingStore(p, q, PingStatus(q.now, q.A, q.B))
    /\ UNCHANGED <<gatewayVars, traffic, registry, healthStatus, serviceLoads, sel,
                   relay, reg, cycles, lastProbe>>

\* the probes of the B instances of request p have all settled
PingProbesB(p) ==
    /\ ping[p].pc = "probesB"
    /\ PingStore(p, ping[p], PingStatus(ping[p].now, ping[p].A, ping[p].B))
    /\ UNCHANGED <<gatewayVars, traffic, registry, healthStatus, serviceLoads, sel,
                   relay, reg, cycles, lastProbe>>

\* the answer has been sent
PingReturn(p) ==
    /\ ping[p].pc = "answered"
    /\ ping' = [ping EXCEPT ![p] = IdlePing]
    /\ UNCHANGED <<gatewayVars, traffic, registry, healthStatus, serviceLoads, sel,
                   relay, reg, cycles, lastProbe, healthCheckCache>>

NextPing ==
    \/ Tick
    \/ RedisConnect
    \/ RedisError
    \/ \E p \in PingReq : PingArrive(p)
    \/ \E p \in PingReq, failedA, failedB \in BOOLEAN : PingLists(p, failedA, failedB)
    \/ \E p \in PingReq : PingProbesA(p)
    \/ \E p \in PingReq : PingProbesB(p)
    \/ \E p \in PingReq : PingReturn(p)

SpecPing == InitPing /\ [][NextPing]_vars

\* ------------------------------------------------------- relayed answer

\* HTTP statuses a backend answers with
Statuses == {200, 201, 204, 301, 304, 400, 404, 500, 503}

\* a JSON body, as far as the gateway looks at it: its `detail` member
\* ("none": absent, "": an empty string) and whether it has other members
Bodies == [detail : {"none", "", "d1"}, rest : {"none", "x"}]

\* the ways a forward settles
Settlements ==
    [kind : {"response"}, status : Statuses, body : Bodies]
        \cup {[kind |-> k, status |-> 0, body |-> [detail |-> "none", rest |-> "none"]] :
                k \in {"timeout", "neterr"}}

\* axios' default validateStatus
ValidateStatus(status) == status >= 200 /\ status < 300

\* error.response?.data?.detail || error.message
ErrorDetail(fw) ==
    IF fw.kind = "response" /\ fw.body.detail \notin {"none", ""}
    THEN fw.body.detail ELSE "error.message"

\* routeToService after the forward: status and body of the gateway's answer
RelayAnswer(fw) ==
    IF fw.kind = "response" /\ ValidateStatus(fw.status)
    THEN [status |-> fw.status, body |-> fw.body]
    ELSE IF fw.kind = "timeout"
    THEN [status |-> 504, body |-> [detail |-> "Request timed out", rest |-> "none"]]
    ELSE [status |-> IF fw.kind = "response" THEN fw.status ELSE 500,
          body |-> [detail |-> ErrorDetail(fw), rest |-> "none"]]

\* a forward has settled as fw and routeToService has not yet resumed
InitRelay ==
    /\ MonStart
    /\ healthStatus = [t \in ServiceTypes |-> [h \in Hosts |-> "unset"]]
    /\ serviceLoads = [k \in Services |-> << >>]
    /\ sel = IdleSel
    /\ clock = 1
    /\ concurrentRequests = 1
    /\ circuitBreakers = [s \in Services |-> InitBreaker]
    /\ gauge = [s \in Services |-> NULL]
    /\ redisConnected = TRUE
    /\ registry = [t \in ServiceTypes |-> <<"h1">>]
    /\ req = [r \in Req |-> IdleReq]
    /\ openedAt = [s \in Services |-> NULL]
    /\ traffic \in {{t} : t \in ServiceTypes}
    /\ \E fw \in Settlements : relay = [pc |-> "settled", fw |-> fw]

\* routeToService resumes after the forward and answers the client
RelayStep ==
    /\ relay.pc = "settled"
    /\ relay' = [pc |-> "answered", fw |-> relay.fw, answer |-> RelayAnswer(relay.fw)]
    /\ UNCHANGED <<gatewayVars, registry, traffic, healthStatus, serviceLoads, sel,
                   monVars>>

NextRelay == RelayStep

SpecRelay == InitRelay /\ [][NextRelay]_vars

\* ------------------------------------------------ steps the properties name

\* request r passed the limiter and routeToService ran its breaker gate
RouterEntered(r) ==
    req[r].pc = "idle" /\ req'[r].pc # "idle" /\ req'[r].admitted

\* request r arrived on a service route (admitted or not)
Arrived(r) == req[r].pc = "idle" /\ req'[r].pc # "idle"

\* the forward of request r settled in this step
ForwardSettled(r) == req[r].pc = "forwarding" /\ req'[r].pc = "responded"

\* ... as a timeout, a transport error or a 5xx answer of the backend
ForwardFailed(r) ==
    ForwardSettled(r) /\ req'[r].resp \in {"504", "500", "status-5xx"}

\* admitted requests whose response has not finished
InFlight == Cardinality({q \in Req : req[q].pc # "idle" /\ req[q].admitted})

\* ------------------------------------------------------------------ claims

\* C1: the failure that takes the count of a service to ERROR_THRESHOLD while
\* the previous failure is at most ERROR_TIMEOUT old opens that breaker; and a
\* request that reaches the router while the breaker is OPEN and at most
\* ERROR_TIMEOUT has passed since lastFailure is answered 503 (Circuit
\* Breaker: OPEN), leaves the breakers untouched and is never forwarded.
C1_OpenRejects ==
    [][\A r \in Req :
        LET s == ServiceName(req'[r].type)
            b == circuitBreakers[s]
        IN  /\ ( /\ ForwardFailed(r)
                 /\ b.failures + 1 = ERROR_THRESHOLD
                 /\ b.lastFailure # NULL
                 /\ clock - b.lastFailure <= ERROR_TIMEOUT )
               => circuitBreakers'[s].state = "OPEN"
            /\ ( /\ RouterEntered(r)
                 /\ b.state = "OPEN"
                 /\ clock - b.lastFailure <= ERROR_TIMEOUT )
               => /\ req'[r].pc = "responded"
                  /\ req'[r].resp = "503-breaker"
                  /\ ~req'[r].forwarded
                  /\ circuitBreakers' = circuitBreakers
            /\ req[r].resp = "503-breaker" => ~req'[r].forwarded
    ]_vars

C1_Witness ==
    \E r \in Req :
        /\ req[r].resp = "503-breaker"
        /\ circuitBreakers[ServiceName(req[r].type)].state = "OPEN"
        /\ circuitBreakers[ServiceName(req[r].type)].failures = ERROR_THRESHOLD

\* C2: in CLOSED, a failure recorded more than ERROR_TIMEOUT after the
\* previous failure resets the failure count to 1 and leaves the breaker
\* CLOSED.
C2_WindowReset ==
    [][\A r \in Req :
        LET s == ServiceName(req[r].type)
            b == circuitBreakers[s]
        IN  ( /\ ForwardFailed(r)
              /\ b.state = "CLOSED"
              /\ b.lastFailure # NULL
              /\ clock - b.lastFailure > ERROR_TIMEOUT )
            => /\ circuitBreakers'[s].failures = 1
               /\ circuitBreakers'[s].state = "CLOSED"
    ]_vars

\* C3: a backend answer with a 2xx, 3xx or 4xx status records a success: it
\* does not run recordFailure, does not raise the failure count and does not
\* open the breaker.
C3_ClientErrorIsSuccess ==
    [][\A r \in Req :
        LET s == ServiceName(req[r].type)
            b == circuitBreakers[s]
        IN  ( /\ ForwardSettled(r)
              /\ req'[r].resp \in {"relay-2xx", "status-3xx", "status-4xx"} )
            => /\ req'[r].calls = {"recordSuccess"}
               /\ circuitBreakers'[s].failures <= b.failures
               /\ (b.state # "OPEN" => circuitBreakers'[s].state # "OPEN")
    ]_vars

\* C4: the admission counter stays within 0 .. MAX_CONCURRENT_REQUESTS.
C4_CounterInRange ==
    0 <= concurrentRequests /\ concurrentRequests <= MAX_CONCURRENT_REQUESTS

C4_Witness ==
    /\ concurrentRequests = MAX_CONCURRENT_REQUESTS
    /\ \E r \in Req : req[r].resp = "503-busy"
    /\ \E r \in Req : req[r].pc = "forwarding"

\* C5: every admitted request gives its unit of the counter back on every exit
\* path, so with no request in progress the counter is 0.
C5_CounterReturnsToZero ==
    (\A r \in Req : req[r].pc = "idle") => concurrentRequests = 0

\* C6: a request arriving while exactly MAX_CONCURRENT_REQUESTS admitted
\* requests are in flight is answered 503 (busy), is not forwarded and leaves
\* the breakers untouched; one arriving while fewer are in flight is admitted.
C6_BusyOnlyAtCapacity ==
    [][\A r \in Req :
        Arrived(r) =>
            IF InFlight = MAX_CONCURRENT_REQUESTS
            THEN /\ req'[r].resp = "503-busy"
                 /\ ~req'[r].forwarded
                 /\ req'[r].calls = {}
                 /\ circuitBreakers' = circuitBreakers
            ELSE InFlight < MAX_CONCURRENT_REQUESTS => req'[r].admitted
    ]_vars

C8_ProbeAlwaysForwarded ==
    /\ [][\A r \in Req :
            LET s == ServiceName(req'[r].type)
                b == circuitBreakers[s]
            IN  ( /\ RouterEntered(r)
                  /\ b.state = "OPEN"
                  /\ clock - openedAt[s] > ERROR_TIMEOUT )
                => /\ circuitBreakers'[s].state = "HALF-OPEN"
                   /\ circuitBreakers'[s].consecutiveReroutes = 0
                   /\ req'[r].resp \notin {"503-breaker", "503-unavailable"}
       ]_vars
    /\ [](\A r \in Req : req[r].probe /\ req[r].pc = "responded" => req[r].forwarded)

\* C8 amended: a request that reaches the router while the breaker is OPEN and
\* more than ERROR_TIMEOUT has passed since lastFailure moves the breaker to
\* HALF-OPEN with consecutiveReroutes 0 and is not rejected by the breaker; it
\* goes on to the registry read when the registry is connected and is
\* forwarded when that read returns a non-empty list, and otherwise it is
\* answered 503 (not available) without a forward.
C8_ProbePassesGate ==
    /\ [][\A r \in Req :
            LET s == ServiceName(req'[r].type)
                b == circuitBreakers[s]
            IN  /\ ( /\ RouterEntered(r)
                     /\ b.state = "OPEN"
                     /\ clock - b.lastFailure > ERROR_TIMEOUT )
                   => /\ circuitBreakers'[s].state = "HALF-OPEN"
                      /\ circuitBreakers'[s].consecutiveReroutes = 0
                      /\ req'[r].probe
                      /\ req'[r].resp # "503-breaker"
                      /\ IF redisConnected
                         THEN req'[r].pc = "awaitIPs"
                         ELSE req'[r].resp = "503-unavailable"
                /\ ( req[r].probe /\ req[r].pc = "awaitIPs" /\ req'[r].pc # "awaitIPs" )
                   => \/ req'[r].pc = "forwarding" /\ req'[r].forwarded
                      \/ req'[r].resp = "503-unavailable" /\ ~req'[r].forwarded
       ]_vars
    /\ [](\A r \in Req :
            req[r].probe /\ req[r].pc = "responded" /\ ~req[r].forwarded
                => req[r].resp = "503-unavailable")

C8_Witness ==
    \E r \in Req :
        /\ req[r].probe
        /\ req[r].pc = "forwarding"
        /\ req[r].forwarded
        /\ circuitBreakers[ServiceName(req[r].type)].state = "HALF-OPEN"

\* C9: a success recorded while the breaker is HALF-OPEN closes it with
\* failures 0, lastFailure null and consecutiveReroutes 0; from then on a
\* failure that leaves the count below ERROR_THRESHOLD keeps it CLOSED, so the
\* next ERROR_THRESHOLD - 1 failures do not reopen it.
C9_HalfOpenSuccessCloses ==
    [][\A r \in Req :
        LET s == ServiceName(req[r].type)
            b == circuitBreakers[s]
        IN  /\ ( /\ ForwardSettled(r)
                 /\ req'[r].resp = "relay-2xx"
                 /\ b.state = "HALF-OPEN" )
               => /\ circuitBreakers'[s].state = "CLOSED"
                  /\ circuitBreakers'[s].failures = 0
                  /\ circuitBreakers'[s].lastFailure = NULL
                  /\ circuitBreakers'[s].consecutiveReroutes = 0
            /\ ( /\ ForwardFailed(r)
                 /\ b.state = "CLOSED"
                 /\ b.failures + 1 < ERROR_THRESHOLD )
               => /\ circuitBreakers'[s].state = "CLOSED"
                  /\ circuitBreakers'[s].failures = b.failures + 1
    ]_vars

\* closed after a recovery (the gauge shows it had opened), then
\* ERROR_THRESHOLD - 1 failures, and still CLOSED
C9_Witness ==
    \E s \in Services :
        /\ gauge[s] = 1
        /\ circuitBreakers[s].state = "CLOSED"
        /\ circuitBreakers[s].failures = ERROR_THRESHOLD - 1

C11_FailureRecordedAndAnswered ==
    /\ [][\A r \in Req :
            LET s == ServiceName(req[r].type)
                b == circuitBreakers[s]
            IN  ( ForwardSettled(r) /\ req'[r].outcome \in {"timeout", "neterr", "5xx"} )
                => /\ req'[r].calls = {"recordFailure"}
                   /\ circuitBreakers'[s].failures = b.failures + 1
                   /\ circuitBreakers'[s].lastFailure = clock
       ]_vars
    /\ [](\A r \in Req :
            /\ req[r].outcome = "timeout" => req[r].resp = "504"
            /\ req[r].outcome = "neterr" => req[r].resp = "500"
            /\ req[r].outcome = "5xx" => req[r].resp = "status-5xx")

C11_Witness ==
    \E r, q \in Req :
        /\ req[r].outcome = "timeout" /\ req[r].resp = "504"
        /\ req[q].outcome \in {"neterr", "5xx"}
        /\ circuitBreakers[ServiceName(req[r].type)].failures >= 2

\* C12: for every answer of a backend the gateway's answer has the backend's
\* status and the backend's body, unchanged.
C12_RelayTransparent ==
    ( relay.pc = "answered" /\ relay.fw.kind = "response" )
        => /\ relay.answer.status = relay.fw.status
           /\ relay.answer.body = relay.fw.body

\* C13: when every load sample of a decision succeeded, the healthy instance
\* with the fewest requests per second is returned, and among equal loads the
\* one earliest in the instance list.
C13_LeastLoadedChosen ==
    ( /\ sel.pc = "done"
      /\ Len(sel.healthy) >= 1
      /\ \A i \in DOMAIN sel.samples : sel.samples[i] \in Loads )
        => \E p \in DOMAIN sel.samples :
               /\ sel.result = sel.healthy[p]
               /\ \A j \in DOMAIN sel.samples :
                      \/ sel.samples[p] < sel.samples[j]
                      \/ sel.samples[p] = sel.samples[j] /\ p <= j

\* C14: an instance whose load sample failed in this decision is returned only
\* when no healthy instance has a known load.
C14_UnknownRankedLast ==
    ( /\ sel.pc = "done"
      /\ \E i \in DOMAIN sel.samples : sel.samples[i] = NULL
      /\ \E j \in DOMAIN sel.samples : sel.samples[j] \in Loads )
        => \A p \in DOMAIN sel.samples :
               sel.samples[p] = NULL => sel.result # sel.healthy[p]

\* C15: the instance returned is a member of the list read for the same
\* decision, and the result is null exactly when that list is empty.
C15_ResultFromListRead ==
    sel.pc = "done"
        => /\ (sel.result = "null") <=> (Len(sel.list) = 0)
           /\ sel.result # "null" => sel.result \in Range(sel.list)

C15_Witness ==
    /\ sel.pc = "done"
    /\ sel.result \in Range(sel.list)
    /\ \E h \in Hosts : isHealthy(sel.type, h) /\ h \notin Range(sel.list)

\* C16: a decision over a non-empty list none of whose instances is recorded
\* healthy returns the first instance of the list, without sampling.
C16_NoHealthyReturnsFirst ==
    [][ ( /\ sel.pc = "idle"
          /\ sel'.pc # "idle"
          /\ Len(sel'.list) > 0
          /\ \A i \in DOMAIN sel'.list :
                 healthStatus[sel'.type][sel'.list[i]] # "true" )
            => /\ sel'.pc = "done"
               /\ sel'.result = sel'.list[1] ]_vars

C16_Witness ==
    /\ sel.pc = "done"
    /\ Len(sel.list) >= 2
    /\ sel.result = sel.list[1]
    /\ \E i, j \in DOMAIN sel.list :
           /\ healthStatus[sel.type][sel.list[i]] = "unset"
           /\ healthStatus[sel.type][sel.list[j]] = "false"

\* C17: the reroutes counter of a breaker goes up by one in exactly the steps
\* in which a request takes that breaker from OPEN to HALF-OPEN as the probe.
C17_RerouteOnProbe ==
    [][ \A s \in Services :
            ( circuitBreakers'[s].reroutes = circuitBreakers[s].reroutes + 1 )
                <=> ( /\ circuitBreakers[s].state = "OPEN"
                      /\ circuitBreakers'[s].state = "HALF-OPEN" ) ]_vars

\* C18: after every step that changes the state of a breaker, the gauge of
\* that service holds the encoding of the new state (CLOSED 0, OPEN 1,
\* HALF-OPEN 2).
C18_GaugeFollowsState ==
    [][ \A s \in Services :
            circuitBreakers'[s].state # circuitBreakers[s].state
                => gauge'[s] = StatusValue(circuitBreakers'[s]) ]_vars

\* C19: a request whose list read finds the registry disconnected, or whose
\* read fails, is answered 503 (not available or Redis is disconnected) in
\* that step, is not forwarded, and records neither a failure nor a success
\* on the breaker.
C19_EmptyListAnswers503 ==
    [][ \A r \in Req :
            ( req[r].read = "none" /\ req'[r].read \in {"disconnected", "failed"} )
                => LET s == ServiceName(req'[r].type) IN
                   /\ req'[r].pc = "responded"
                   /\ req'[r].resp = "503-unavailable"
                   /\ ~req'[r].forwarded
                   /\ req'[r].calls = {}
                   /\ circuitBreakers'[s].failures = circuitBreakers[s].failures
                   /\ circuitBreakers'[s].lastFailure = circuitBreakers[s].lastFailure
                   /\ circuitBreakers'[s].state \in
                          {circuitBreakers[s].state, "HALF-OPEN"} ]_vars

C19_Witness ==
    \E r, q \in Req :
        /\ req[r].read = "disconnected" /\ req[r].resp = "503-unavailable"
        /\ req[q].read = "failed" /\ req[q].resp = "503-unavailable"
        /\ ~req[r].forwarded /\ ~req[q].forwarded
        /\ circuitBreakers[ServiceName(req[q].type)].failures >= 1

\* C20: a successful registration puts the host at the front of the list of
\* its type and leaves the rest of the list as it was, duplicates included; a
\* list read that succeeds returns the list as registered.
C20_RegisterPrepends ==
    [][ /\ \A t \in ServiceTypes :
               Len(registry'[t]) = Len(registry[t]) + 1
                   => /\ Tail(registry'[t]) = registry[t]
                      /\ Head(registry'[t]) \in Hosts
        /\ \A t \in ServiceTypes :
               ( sel.pc = "idle" /\ sel'.pc # "idle" /\ sel'.type = t
                 /\ Len(sel'.list) > 0 )
                   => sel'.list = registry[t] ]_vars

C20_Witness ==
    \E t \in ServiceTypes :
        /\ Len(registry[t]) = 3
        /\ registry[t][1] = registry[t][3]
        /\ registry[t][1] # registry[t][2]
        /\ sel.pc = "done" /\ sel.list = registry[t]

\* C21: a registration whose body lacks host or serviceType is answered 400
\* in the step it arrives and changes no registry list; a registration whose
\* write fails is answered 500.
C21_RegistrationErrors ==
    [][ /\ ( /\ reg.pc = "idle" /\ reg'.pc # "idle"
             /\ (Falsy(reg'.host) \/ Falsy(reg'.serviceType)) )
               => /\ reg'.pc = "answered"
                  /\ reg'.status = 400
                  /\ registry' = registry
        /\ ( reg.pc = "writing" /\ reg'.pc = "answered" /\ registry' = registry )
               => reg'.status = 500 ]_vars

C21_Witness ==
    /\ reg.pc = "answered"
    /\ reg.status = 400
    /\ reg.host \in Hosts
    /\ reg.serviceType = "undefined"
    /\ Len(registry["A"]) = 2

\* C22: isHealthy of a (type, instance) pair is the result of the probe of
\* that pair that completed last, and false for a pair never probed; only a
\* probe of a health cycle changes the health view.
C22_LastProbeWins ==
    /\ [](\A t \in ServiceTypes, h \in Hosts :
              isHealthy(t, h) <=> lastProbe[t][h] = "true")
    /\ [][ healthStatus' # healthStatus
             => \E n \in DOMAIN cycles :
                    /\ cycles[n].pc = "probing"
                    /\ cycles' = PutCycle(n, NextProbe(cycles[n])) ]_vars

C22_Witness ==
    /\ Len(cycles) = 2
    /\ lastProbe["A"]["h1"] = "false"
    /\ lastProbe["A"]["h2"] = "true"
    /\ lastProbe["B"]["h1"] = "none"
    /\ ~isHealthy("A", "h1") /\ isHealthy("A", "h2") /\ ~isHealthy("B", "h1")
    /\ cycles[1].pc = "probing" /\ cycles[1].t = "A" /\ cycles[1].i = 1
    /\ cycles[2].pc = "probing" /\ cycles[2].t = "B"

\* C23: at most one health-check cycle is in progress at any time.
C23_CyclesNeverOverlap == Len(cycles) <= 1

\* C24: a GET /ping that arrives less than PING_WINDOW after the stored
\* timestamp is answered with the stored status in that step, reads no list,
\* probes no instance and leaves the cache as it is; one that arrives later,
\* or with nothing stored, computes a status, and when its computation ends
\* the cache holds that status with the arrival time of the request.
C24_PingMemoized ==
    [][ \A p \in PingReq :
          /\ ( ping[p].pc = "idle" /\ ping'[p].pc # "idle" )
               => IF /\ healthCheckCache.timestamp # NULL
                     /\ clock - healthCheckCache.timestamp < PING_WINDOW
                  THEN /\ ping'[p].pc = "answered"
                       /\ ping'[p].answer = healthCheckCache.results
                       /\ ~ping'[p].read /\ ~ping'[p].probed
                       /\ healthCheckCache' = healthCheckCache
                  ELSE /\ ~ping'[p].cached
                       /\ ping'[p].pc = "answered"
                            => healthCheckCache' = [timestamp |-> clock,
                                                    results |-> ping'[p].answer]
          /\ ( ping[p].pc \in {"lists", "probesA", "probesB"}
               /\ ping'[p].pc = "answered" )
               => /\ ping'[p].answer.timestamp = ping[p].now
                  /\ healthCheckCache' = [timestamp |-> ping[p].now,
                                          results |-> ping'[p].answer] ]_vars

C24_Witness ==
    \E p \in PingReq :
        /\ ping[p].pc = "answered" /\ ping[p].cached
        /\ ping[p].now = healthCheckCache.timestamp + 1
        /\ healthCheckCache.timestamp > 1
        /\ ping[p].answer = healthCheckCache.results
        /\ ping[p].answer.instancesA = 2 /\ ping[p].answer.instancesB = 1

\* C25: a failure recorded while the breaker is HALF-OPEN leaves it OPEN with
\* lastFailure at the time of that failure, and the gate rejects at every
\* time up to ERROR_TIMEOUT after it.
C25_HalfOpenFailureReopens ==
    [][ \A r \in Req :
          LET s == ServiceName(req[r].type) IN
          ( /\ ForwardSettled(r)
            /\ "recordFailure" \in req'[r].calls
            /\ circuitBreakers[s].state = "HALF-OPEN" )
              => /\ circuitBreakers'[s].state = "OPEN"
                 /\ circuitBreakers'[s].lastFailure = clock
                 /\ \A d \in 0..ERROR_TIMEOUT :
                        ~checkCircuitBreaker(circuitBreakers'[s], clock + d).ok ]_vars

C25_Witness ==
    \E r \in Req :
        LET b == circuitBreakers[ServiceName(req[r].type)] IN
        /\ req[r].pc = "responded"
        /\ req[r].probe
        /\ req[r].calls = {"recordFailure"}
        /\ b.state = "OPEN"
        /\ b.lastFailure = clock
        /\ b.failures = ERROR_THRESHOLD + 1

\* C26: a success recorded while the breaker is CLOSED or OPEN leaves the
\* whole breaker record as it was.
C26_SuccessLeavesClosedAlone ==
    [][ \A r \in Req :
          LET s == ServiceName(req[r].type) IN
          ( /\ ForwardSettled(r)
            /\ "recordSuccess" \in req'[r].calls
            /\ circuitBreakers[s].state \in {"CLOSED", "OPEN"} )
              => circuitBreakers'[s] = circuitBreakers[s] ]_vars

C26_Witness ==
    \E r, q \in Req :
        LET b == circuitBreakers[ServiceName(req[r].type)] IN
        /\ req[r].pc = "responded" /\ req[r].calls = {"recordSuccess"}
        /\ req[q].pc = "forwarding"
        /\ b.state = "CLOSED"
        /\ b.failures = ERROR_THRESHOLD - 1
        /\ b.lastFailure = clock

\* C27: a CLOSED breaker has fewer than ERROR_THRESHOLD failures, an OPEN or
\* HALF-OPEN one has at least ERROR_THRESHOLD (no reroute is ever recorded).
C27_FailuresMatchState ==
    \A s \in Services :
        IF circuitBreakers[s].state = "CLOSED"
        THEN circuitBreakers[s].failures < ERROR_THRESHOLD
        ELSE circuitBreakers[s].failures >= ERROR_THRESHOLD

C27_Witness ==
    \E s \in Services, r \in Req :
        /\ circuitBreakers[s].state = "HALF-OPEN"
        /\ circuitBreakers[s].failures = ERROR_THRESHOLD + 1
        /\ req[r].pc = "forwarding" /\ req[r].probe
        /\ ServiceName(req[r].type) = s

\* C28: the gate rejects a request exactly when the breaker is OPEN and at
\* most ERROR_TIMEOUT has passed since lastFailure, and only in the step in
\* which the request enters the router.
C28_GateOncePerRequest ==
    [][ \A r \in Req :
          /\ RouterEntered(r)
               => LET b == circuitBreakers[ServiceName(req'[r].type)] IN
                  ( req'[r].resp = "503-breaker" )
                      <=> ( /\ b.state = "OPEN"
                            /\ clock - b.lastFailure <= ERROR_TIMEOUT )
          /\ ( req[r].pc # "idle" /\ req'[r].resp = "503-breaker" )
               => req[r].resp = "503-breaker" ]_vars

C28_Witness ==
    \E r, q \in Req :
        /\ r # q
        /\ req[r].type = req[q].type
        /\ req[r].pc = "forwarding" /\ req[q].pc = "forwarding"
        /\ req[r].probe /\ ~req[q].probe
        /\ circuitBreakers[ServiceName(req[r].type)].state = "HALF-OPEN"

\* C29: a failure recorded while the breaker is OPEN keeps it OPEN, adds one
\* to failures and sets lastFailure to the time of that failure, and the gate
\* rejects at every time up to ERROR_TIMEOUT after it.
C29_FailureWhileOpenExtends ==
    [][ \A r \in Req :
          LET s == ServiceName(req[r].type) IN
          ( /\ ForwardSettled(r)
            /\ "recordFailure" \in req'[r].calls
            /\ circuitBreakers[s].state = "OPEN" )
              => /\ circuitBreakers'[s].state = "OPEN"
                 /\ circuitBreakers'[s].failures = circuitBreakers[s].failures + 1
                 /\ circuitBreakers'[s].lastFailure = clock
                 /\ \A d \in 0..ERROR_TIMEOUT :
                        ~checkCircuitBreaker(circuitBreakers'[s], clock + d).ok ]_vars

C29_Witness ==
    \E s \in Services, r \in Req :
        /\ circuitBreakers[s].state = "OPEN"
        /\ circuitBreakers[s].failures = ERROR_THRESHOLD + 1
        /\ circuitBreakers[s].lastFailure = clock
        /\ openedAt[s] # NULL /\ openedAt[s] < clock
        /\ req[r].pc = "responded" /\ ~req[r].probe
        /\ req[r].calls = {"recordFailure"}
        /\ ServiceName(req[r].type) = s

====
